---- MODULE Spec2Model ----
(***************************************************************************)
(* CH-Connect (ch_api_server.py): the portfolio store kept in              *)
(* companies.json, the deadline helpers built on days_until, and the       *)
(* "My Companies" page (summary tiles, filter, table sorted by CS01        *)
(* deadline).                                                              *)
(*                                                                         *)
(* Python values are represented as follows.                               *)
(*   - a str whose characters matter (a due date, last_updated) is a       *)
(*     sequence of one-character strings; "" is << >>;                     *)
(*   - None in a str position is PyNone, a one-element sequence whose      *)
(*     element is no single character, so it equals no str;                *)
(*   - an Optional[int] is << >> (None) or <<n>>;                          *)
(*   - opaque strs (crn, name, status, labels) are TLA+ strings.           *)
(***************************************************************************)
EXTENDS Integers, Sequences, FiniteSets, TLC

VARIABLES
    file,       \* companies.json: [exists, content], content a sequence of JSON chunks
    today,      \* date.today(): [y, m, d]
    op,         \* the last store operation run: [name, arg]
    ret,        \* its return value
    before,     \* load_companies() as it was when save_companies was last entered
    calls,      \* the crns passed to refresh_company_data by the last refresh, in call order
    save_pc,    \* position inside save_companies: "idle", "writing" or "interrupted"
    save_data,  \* the list save_companies is dumping
    save_pos,   \* how many chunks of json.dump have reached the file
    view        \* what the My Companies page last rendered

vars == <<file, today, op, ret, before, calls, save_pc, save_data, save_pos, view>>

\* ---------------------------------------------------------------- bounds
MaxDays == 1
MaxLen == 3

\* ---------------------------------------------------------------- Python values
PyNone == <<"None">>
NA == <<"N", "/", "A">>
Digits == <<"0", "1", "2", "3", "4", "5", "6", "7", "8", "9">>
DigitValue ==
    "0" :> 0 @@ "1" :> 1 @@ "2" :> 2 @@ "3" :> 3 @@ "4" :> 4 @@
    "5" :> 5 @@ "6" :> 6 @@ "7" :> 7 @@ "8" :> 8 @@ "9" :> 9

IsDigit(c) == c \in DOMAIN DigitValue

\* int(s) for a run of digits
RECURSIVE NumVal(_, _, _)
NumVal(s, i, acc) ==
    IF i > Len(s) THEN acc ELSE NumVal(s, i + 1, 10 * acc + DigitValue[s[i]])

AllDigits(s) == \A i \in 1..Len(s) : IsDigit(s[i])

\* ---------------------------------------------------------------- calendar (datetime.date)
IsLeap(y) == y % 4 = 0 /\ (y % 100 # 0 \/ y % 400 = 0)

DaysInMonth(y, m) ==
    IF m = 2 THEN (IF IsLeap(y) THEN 29 ELSE 28)
    ELSE IF m \in {4, 6, 9, 11} THEN 30 ELSE 31

\* the days of a common year before month m
CumulativeDays == <<0, 31, 59, 90, 120, 151, 181, 212, 243, 273, 304, 334>>

DaysBeforeMonth(y, m) == CumulativeDays[m] + (IF m > 2 /\ IsLeap(y) THEN 1 ELSE 0)

DaysBeforeYear(y) ==
    (y - 1) * 365 + ((y - 1) \div 4) - ((y - 1) \div 100) + ((y - 1) \div 400)

toordinal(dt) == DaysBeforeYear(dt.y) + DaysBeforeMonth(dt.y, dt.m) + dt.d

\* the day after dt (the clock moving on between two runs of the script)
NextDay(dt) ==
    IF dt.d < DaysInMonth(dt.y, dt.m) THEN [dt EXCEPT !.d = dt.d + 1]
    ELSE IF dt.m < 12 THEN [y |-> dt.y, m |-> dt.m + 1, d |-> 1]
    ELSE [y |-> dt.y + 1, m |-> 1, d |-> 1]

\* strftime("%Y-%m-%d")
Digit(n) == Digits[n + 1]
strftime(dt) ==
    << Digit((dt.y \div 1000) % 10), Digit((dt.y \div 100) % 10),
       Digit((dt.y \div 10) % 10), Digit(dt.y % 10), "-",
       Digit(dt.m \div 10), Digit(dt.m % 10), "-",
       Digit(dt.d \div 10), Digit(dt.d % 10) >>

\* the fields of "%Y-%m-%d": %Y is four digits; %m is one or two digits making
\* 1..12; %d is one or two digits (or a space and a digit) making 1..31
MonthField(f) == Len(f) \in {1, 2} /\ AllDigits(f) /\ NumVal(f, 1, 0) \in 1..12
DayField(f) ==
    \/ Len(f) \in {1, 2} /\ AllDigits(f) /\ NumVal(f, 1, 0) \in 1..31
    \/ Len(f) = 2 /\ f[1] = " " /\ IsDigit(f[2]) /\ f[2] # "0"
DayVal(f) == IF f[1] = " " THEN DigitValue[f[2]] ELSE NumVal(f, 1, 0)

\* strptime(s, "%Y-%m-%d").date(): << >> when it raises ValueError, else <<[y, m, d]>>;
\* k is where the dash after the month stands
strptime(s) ==
    LET fits == {k \in {7, 8} :
                    /\ k < Len(s) /\ Len(s) <= 10
                    /\ AllDigits(SubSeq(s, 1, 4)) /\ s[5] = "-" /\ s[k] = "-"
                    /\ MonthField(SubSeq(s, 6, k - 1))
                    /\ DayField(SubSeq(s, k + 1, Len(s)))}
    IN IF fits = {} THEN << >>
       ELSE LET k == CHOOSE i \in fits : TRUE
                dt == [y |-> NumVal(SubSeq(s, 1, 4), 1, 0),
                       m |-> NumVal(SubSeq(s, 6, k - 1), 1, 0),
                       d |-> DayVal(SubSeq(s, k + 1, Len(s)))]
            IN IF dt.y < 1 \/ dt.d > DaysInMonth(dt.y, dt.m) THEN << >> ELSE << dt >>

\* days_until(date_str) with date.today() = now
days_until(date_str, now) ==
    IF date_str = PyNone \/ date_str = << >> \/ date_str = NA THEN << >>
    ELSE LET p == strptime(date_str)
         IN IF p = << >> THEN << >> ELSE << toordinal(p[1]) - toordinal(now) >>

days_remaining(date_str, now) == days_until(date_str, now)

\* ---------------------------------------------------------------- companies.json
\* json.dump(data, f, indent=4) writes the text chunk by chunk; a chunk is
\* [k, v]: a bracket, a comma, or the members of one object (v = <<record>>).
Chunk(k) == [k |-> k, v |-> << >>]
ObjChunks(c) == << Chunk("{"), [k |-> "members", v |-> <<c>>], Chunk("}") >>

RECURSIVE ItemChunks(_, _)
ItemChunks(data, i) ==
    IF i > Len(data) THEN << >>
    ELSE (IF i = 1 THEN << >> ELSE << Chunk(",") >>) \o ObjChunks(data[i])
         \o ItemChunks(data, i + 1)

json_dump(data) ==
    IF data = << >> THEN << Chunk("[]") >>
    ELSE << Chunk("[") >> \o ItemChunks(data, 1) \o << Chunk("]") >>

\* json.load: [ok, val]; ok = FALSE stands for JSONDecodeError
RECURSIVE ParseItems(_, _, _)
ParseItems(text, i, acc) ==
    IF i + 3 > Len(text) THEN [ok |-> FALSE, val |-> << >>]
    ELSE IF ~(text[i].k = "{" /\ text[i + 1].k = "members" /\ text[i + 2].k = "}")
         THEN [ok |-> FALSE, val |-> << >>]
    ELSE IF text[i + 3].k = "]"
         THEN [ok |-> (i + 3 = Len(text)), val |-> acc \o text[i + 1].v]
    ELSE IF text[i + 3].k = ","
         THEN ParseItems(text, i + 4, acc \o text[i + 1].v)
    ELSE [ok |-> FALSE, val |-> << >>]

json_load(text) ==
    IF text = << >> THEN [ok |-> FALSE, val |-> << >>]
    ELSE IF text[1].k = "[]" THEN [ok |-> (Len(text) = 1), val |-> << >>]
    ELSE IF text[1].k = "[" THEN ParseItems(text, 2, << >>)
    ELSE [ok |-> FALSE, val |-> << >>]

NoFile == [exists |-> FALSE, content |-> << >>]

\* load_companies(): [] when the file is missing or does not parse
load_companies(f) ==
    IF ~f.exists THEN << >>
    ELSE LET r == json_load(f.content) IN IF r.ok THEN r.val ELSE << >>

\* the file once save_companies(data) has returned
save_companies(data) == [exists |-> TRUE, content |-> json_dump(data)]

\* ---------------------------------------------------------------- store operations
HasCrn(companies, crn) == \E i \in 1..Len(companies) : companies[i].crn = crn

\* add_company without the scan for the crn
add_company_no_scan(f, company_data) ==
    [saved |-> TRUE, data |-> Append(load_companies(f), company_data), ret |-> TRUE]

\* add_company putting the new record first
add_company_prepend(f, company_data) ==
    LET companies == load_companies(f)
    IN IF HasCrn(companies, company_data.crn)
       THEN [saved |-> FALSE, data |-> companies, ret |-> FALSE]
       ELSE [saved |-> TRUE, data |-> <<company_data>> \o companies, ret |-> TRUE]

\* add_company(company_data): [saved, data, ret]; when saved, data is the list it
\* passes to save_companies
add_company(f, company_data) ==
    LET companies == load_companies(f)
    IN IF HasCrn(companies, company_data.crn)
       THEN [saved |-> FALSE, data |-> companies, ret |-> FALSE]
       ELSE [saved |-> TRUE, data |-> Append(companies, company_data), ret |-> TRUE]

\* delete_company with the test of the comprehension turned round
delete_company_keep_matches(f, crn) ==
    LET Keep(c) == c.crn = crn IN SelectSeq(load_companies(f), Keep)

\* delete_company(crn): the list it passes to save_companies
delete_company(f, crn) ==
    LET Keep(c) == c.crn # crn IN SelectSeq(load_companies(f), Keep)

\* ---------------------------------------------------------------- Companies House
\* What get_json("/company/<crn>") can answer: << >> (None: not 200) or <<profile>>.
\* In a profile an absent next_due is << >>, a present one <<str>>.
Profiles ==
    { [company_name |-> "ACME LTD", company_status |-> "active",
       accounts_next_due |-> << <<"2", "0", "2", "4", "-", "0", "3", "-", "0", "5">> >>,
       cs_next_due |-> << >>],
      [company_name |-> "ACME LIMITED", company_status |-> "dissolved",
       accounts_next_due |-> << >>,
       cs_next_due |-> << <<"2", "0", "2", "4", "-", "0", "4", "-", "1", "1">> >>] }

Answers == {<< >>} \cup {<<p>> : p \in Profiles}

GetDefault(field, default) == IF field = << >> THEN default ELSE field[1]

\* refresh_company_data(crn): << >> (None) or <<record>>
refresh_company_data(crn, answer, now) ==
    IF answer = << >> THEN << >>
    ELSE LET profile == answer[1]
         IN << [crn |-> crn,
                name |-> profile.company_name,
                status |-> profile.company_status,
                accounts_due |-> GetDefault(profile.accounts_next_due, NA),
                cs_due |-> GetDefault(profile.cs_next_due, NA),
                last_updated |-> strftime(now)] >>

\* the refresh loop keeping the stored record when the fetch yields nothing
RECURSIVE RefreshLoopKeepStale(_, _, _, _, _, _)
RefreshLoopKeepStale(companies, answers, now, i, updated_list, called) ==
    IF i > Len(companies) THEN [updated_list |-> updated_list, called |-> called]
    ELSE LET updated == refresh_company_data(companies[i].crn, answers[i], now)
         IN RefreshLoopKeepStale(companies, answers, now, i + 1,
                        IF updated # << >> THEN updated_list \o updated
                        ELSE Append(updated_list, companies[i]),
                        Append(called, companies[i].crn))

\* the loop of refresh_all_companies from its i-th iteration on
RECURSIVE RefreshLoop(_, _, _, _, _, _)
RefreshLoop(companies, answers, now, i, updated_list, called) ==
    IF i > Len(companies) THEN [updated_list |-> updated_list, called |-> called]
    ELSE LET updated == refresh_company_data(companies[i].crn, answers[i], now)
         IN RefreshLoop(companies, answers, now, i + 1,
                        IF updated # << >> THEN updated_list \o updated ELSE updated_list,
                        Append(called, companies[i].crn))

\* refresh_all_companies(): [data, ret, calls]; answers[i] is what the i-th fetch
\* got, data is the list it passes to save_companies
refresh_all_companies(f, answers, now) ==
    LET companies == load_companies(f)
        r == RefreshLoop(companies, answers, now, 1, << >>, << >>)
    IN [data |-> r.updated_list,
        ret |-> Len(r.updated_list),
        calls |-> r.called]

\* ---------------------------------------------------------------- deadline labels
Plural(n) == IF n # 1 THEN "s" ELSE ""

\* relative_label taking a month to be 31 days
relative_label_31(date_str, now) ==
    LET d == days_until(date_str, now)
    IN IF d = << >> THEN "N/A"
       ELSE IF d[1] < 0
            THEN LET days_ago == -d[1]
                     months_ago == days_ago \div 31
                 IN IF months_ago = 0 THEN ToString(days_ago) \o " days ago"
                    ELSE ToString(months_ago) \o " month" \o Plural(months_ago) \o " ago"
       ELSE IF d[1] < 31 THEN "in " \o ToString(d[1]) \o " days"
       ELSE LET months == d[1] \div 31
            IN "in " \o ToString(months) \o " month" \o Plural(months)

\* relative_label(date_str)
relative_label(date_str, now) ==
    LET d == days_until(date_str, now)
    IN IF d = << >> THEN "N/A"
       ELSE IF d[1] < 0
            THEN LET days_ago == -d[1]
                     months_ago == days_ago \div 30
                 IN IF months_ago = 0 THEN ToString(days_ago) \o " days ago"
                    ELSE ToString(months_ago) \o " month" \o Plural(months_ago) \o " ago"
       ELSE IF d[1] < 30 THEN "in " \o ToString(d[1]) \o " days"
       ELSE LET months == d[1] \div 30
            IN "in " \o ToString(months) \o " month" \o Plural(months)

\* status_label(date_str); the source puts a coloured-circle character and a space
\* in front of each of these texts
status_label(date_str, now) ==
    LET d == days_until(date_str, now)
    IN IF d = << >> THEN "N/A"
       ELSE IF d[1] < 0 THEN "Overdue"
       ELSE IF d[1] <= 7 THEN "Due in 7 days"
       ELSE IF d[1] <= 30 THEN "Due in 30 days"
       ELSE "OK"

\* min(days_list) for a non-empty list
RECURSIVE MinOf(_)
MinOf(days_list) ==
    IF Len(days_list) = 1 THEN days_list[1]
    ELSE LET m == MinOf(Tail(days_list))
         IN IF days_list[1] <= m THEN days_list[1] ELSE m

\* company_overall_status going by the accounts deadline whenever there is one
company_overall_status_first(company, now) ==
    LET days_list == days_remaining(company.accounts_due, now)
                     \o days_remaining(company.cs_due, now)
    IN IF days_list = << >> THEN "N/A"
       ELSE LET min_days == days_list[1]
            IN IF min_days < 0 THEN "Overdue"
               ELSE IF min_days <= 7 THEN "Due in 7 days"
               ELSE IF min_days <= 30 THEN "Due in 30 days"
               ELSE "OK"

\* company_overall_status(company)
company_overall_status(company, now) ==
    LET days_list == days_remaining(company.accounts_due, now)
                     \o days_remaining(company.cs_due, now)
    IN IF days_list = << >> THEN "N/A"
       ELSE LET min_days == MinOf(days_list)
            IN IF min_days < 0 THEN "Overdue"
               ELSE IF min_days <= 7 THEN "Due in 7 days"
               ELSE IF min_days <= 30 THEN "Due in 30 days"
               ELSE "OK"

\* ---------------------------------------------------------------- My Companies page
FilterChoices == {"All", "Overdue", "Due in 7 days", "Due in 30 days", "OK"}

\* filtered_companies
filtered(companies, filter_choice, now) ==
    IF filter_choice = "All" THEN companies
    ELSE LET Match(c) == company_overall_status(c, now) = filter_choice
         IN SelectSeq(companies, Match)

\* the summary's tests with the 7-day tile ending a day early
Bucket_before_7(acc, d) ==
    IF d = << >> THEN acc
    ELSE IF d[1] < 0 THEN [acc EXCEPT !.overdue = @ + 1]
    ELSE IF d[1] < 7 THEN [acc EXCEPT !.due_7 = @ + 1]
    ELSE IF d[1] <= 30 THEN [acc EXCEPT !.due_30 = @ + 1]
    ELSE acc

\* one deadline of the summary loop: the counters after looking at d
Bucket(acc, d) ==
    IF d = << >> THEN acc
    ELSE IF d[1] < 0 THEN [acc EXCEPT !.overdue = @ + 1]
    ELSE IF d[1] <= 7 THEN [acc EXCEPT !.due_7 = @ + 1]
    ELSE IF d[1] <= 30 THEN [acc EXCEPT !.due_30 = @ + 1]
    ELSE acc

\* the summary loop from its i-th company on
RECURSIVE SummaryLoop(_, _, _, _)
SummaryLoop(companies, now, i, acc) ==
    IF i > Len(companies) THEN acc
    ELSE SummaryLoop(companies, now, i + 1,
                     Bucket(Bucket(acc, days_remaining(companies[i].accounts_due, now)),
                            days_remaining(companies[i].cs_due, now)))

\* the summary counting each company once, by its nearer deadline
summary_per_company(companies, now) ==
    LET Is(label) == {i \in 1..Len(companies) :
                         company_overall_status(companies[i], now) = label}
    IN [total |-> Len(companies),
        due_30 |-> Cardinality(Is("Due in 30 days")),
        due_7 |-> Cardinality(Is("Due in 7 days")),
        overdue |-> Cardinality(Is("Overdue"))]

summary(companies, now) ==
    SummaryLoop(companies, now, 1,
                [total |-> Len(companies), due_30 |-> 0, due_7 |-> 0, overdue |-> 0])

\* the table row built for company c
Row(c, now) ==
    [company_name |-> c.name,
     company_number |-> c.crn,
     accounts_due_date |-> c.accounts_due,
     accounts_deadline |-> relative_label(c.accounts_due, now),
     accounts_status |-> status_label(c.accounts_due, now),
     cs01_due_date |-> c.cs_due,
     cs01_deadline |-> relative_label(c.cs_due, now),
     cs01_status |-> status_label(c.cs_due, now),
     company_status |-> c.status,
     last_updated |-> c.last_updated]

table_rows(companies, now) == [i \in 1..Len(companies) |-> Row(companies[i], now)]

Sentinel == 99999

\* the __cs_days__ column: << >> is the None days_until gave for a date it could
\* not parse, which the column holds as NaN
cs_days(x, now) ==
    IF x = PyNone \/ x = NA \/ x = << >> THEN << Sentinel >> ELSE days_until(x, now)

\* argsort(kind="quicksort") of the keys at the positions in idx, ascending by
\* key. pandas does not promise that quicksort is stable; numpy's quicksort
\* finishes runs of up to 16 elements by insertion sort, so in tables of the
\* sizes met here positions with equal keys come out in their original order.
RECURSIVE argsort(_, _)
argsort(keys, idx) ==
    IF idx = {} THEN << >>
    ELSE LET i == CHOOSE k \in idx :
                     \A j \in idx : \/ keys[k][1] < keys[j][1]
                                    \/ keys[k][1] = keys[j][1] /\ k <= j
         IN <<i>> \o argsort(keys, idx \ {i})

\* the positions in idx, ascending
RECURSIVE Ascending(_)
Ascending(idx) ==
    IF idx = {} THEN << >>
    ELSE LET i == CHOOSE k \in idx : \A j \in idx : k <= j
         IN <<i>> \o Ascending(idx \ {i})

\* df.sort_values("__cs_days__"): the new row order as the sequence of the old
\* positions of the rows. The rows whose key is not NaN are argsorted and the NaN
\* rows follow in their original order (na_position="last").
sort_values(keys) ==
    LET non_nan_idx == {i \in 1..Len(keys) : keys[i] # << >>}
        nan_idx == {i \in 1..Len(keys) : keys[i] = << >>}
    IN argsort(keys, non_nan_idx) \o Ascending(nan_idx)

\* ---------------------------------------------------------------- the script's handlers
Crn(i) == "0000000" \o ToString(i)
CRNs == {Crn(1), Crn(2), Crn(3)}
StartDay == [y |-> 2024, m |-> 3, d |-> 2]
Elapsed == toordinal(today) - toordinal(StartDay)

RECURSIVE DaysFrom(_, _)
DaysFrom(dt, n) == IF n = 0 THEN {dt} ELSE {dt} \cup DaysFrom(NextDay(dt), n - 1)

\* Dashboard: the record "Save to My Companies" builds from last_company, which a
\* Search on some day up to today filled from the profile it found
SavedSearches ==
    { [crn |-> crn, name |-> p.company_name, status |-> p.company_status,
       accounts_due |-> GetDefault(p.accounts_next_due, NA),
       cs_due |-> GetDefault(p.cs_next_due, NA),
       last_updated |-> strftime(dt)] :
      crn \in CRNs, p \in Profiles, dt \in DaysFrom(StartDay, Elapsed) }

NoView ==
    [rendered |-> FALSE, empty |-> TRUE, today |-> StartDay, filter_choice |-> "All",
     total |-> 0, due_30 |-> 0, due_7 |-> 0, overdue |-> 0,
     rows |-> << >>, table |-> << >>]
NoOp == [name |-> "none", arg |-> << >>]

StoreFrame == UNCHANGED <<today, before, save_pc, save_data, save_pos, view>>

\* "Save to My Companies"
SaveButton(data) ==
    LET r == add_company(file, data)
    IN /\ file' = IF r.saved THEN save_companies(r.data) ELSE file
       /\ ret' = r.ret
       /\ op' = [name |-> "add", arg |-> <<data>>]
       /\ calls' = << >>
       /\ StoreFrame

\* "Delete company" with a non-empty company number
DeleteButton(delete_crn) ==
    /\ file' = save_companies(delete_company(file, delete_crn))
    /\ ret' = PyNone
    /\ op' = [name |-> "remove", arg |-> <<delete_crn>>]
    /\ calls' = << >>
    /\ StoreFrame

\* "Refresh All Companies"
RefreshButton(answers) ==
    LET r == refresh_all_companies(file, answers, today)
    IN /\ file' = save_companies(r.data)
       /\ ret' = r.ret
       /\ op' = [name |-> "refresh", arg |-> answers]
       /\ calls' = r.calls
       /\ StoreFrame

\* midnight passes
Tick ==
    /\ Elapsed < MaxDays
    /\ today' = NextDay(today)
    /\ UNCHANGED <<file, op, ret, before, calls, save_pc, save_data, save_pos, view>>

Init ==
    /\ file = NoFile
    /\ today = StartDay
    /\ op = NoOp
    /\ ret = PyNone
    /\ before = << >>
    /\ calls = << >>
    /\ save_pc = "idle"
    /\ save_data = << >>
    /\ save_pos = 0
    /\ view = NoView

Next ==
    \/ \E data \in SavedSearches : SaveButton(data)
    \/ \E delete_crn \in CRNs : DeleteButton(delete_crn)
    \/ \E answers \in [1..Len(load_companies(file)) -> Answers] : RefreshButton(answers)
    \/ Tick

Spec == Init /\ [][Next]_vars

\* ---------------------------------------------------------------- the store's contract
Stored == load_companies(file)

CountCrn(companies, crn) == Cardinality({i \in 1..Len(companies) : companies[i].crn = crn})

\* C1: from an empty portfolio, after any sequence of add, remove and refreshAll run
\* one at a time, the persisted collection never holds two records with the same crn.
C1_OneRecordPerCrn ==
    \A i, j \in 1..Len(Stored) : i # j => Stored[i].crn # Stored[j].crn

\* a full portfolio on which an add of a stored crn has just been turned down
C1_Witness ==
    /\ op.name = "add" /\ ret = FALSE
    /\ Len(Stored) = Cardinality(CRNs)
    /\ CountCrn(Stored, op.arg[1].crn) = 1

\* C2: add(record) on a store holding record.crn returns false and leaves the
\* persisted collection as it was; on a store without it, it returns true and the
\* persisted collection is the old one with the record appended at the end. An add
\* that follows an add of the same crn returns false and leaves exactly one record
\* of that crn.
C2_AddContract ==
    [][(op'.name = "add" /\ SaveButton(op'.arg[1])) =>
         LET record == op'.arg[1]
             old == load_companies(file)
             new == load_companies(file')
         IN /\ IF \E i \in 1..Len(old) : old[i].crn = record.crn
               THEN ret' = FALSE /\ new = old /\ file' = file
               ELSE ret' = TRUE /\ new = old \o <<record>>
            /\ (op.name = "add" /\ op.arg[1].crn = record.crn) =>
                  (ret' = FALSE /\ CountCrn(new, record.crn) = 1)]_vars

\* a second add of a crn, with other field values, has returned false and the
\* first record is the one stored
C2_Witness ==
    /\ op.name = "add" /\ ret = FALSE
    /\ Len(Stored) >= 2
    /\ \E i \in 1..Len(Stored) :
          Stored[i].crn = op.arg[1].crn /\ Stored[i] # op.arg[1]

\* the records of s other than those of crn, in their order
RECURSIVE Without(_, _)
Without(s, crn) ==
    IF s = << >> THEN << >>
    ELSE LET front == Without(SubSeq(s, 1, Len(s) - 1), crn)
         IN IF s[Len(s)].crn = crn THEN front ELSE Append(front, s[Len(s)])

\* C3: remove(crn) leaves the persisted collection equal to the previous one with
\* every record of that crn removed and the others in their order; a second
\* remove(crn) changes nothing more; removing an absent crn leaves the collection
\* unchanged.
C3_RemoveContract ==
    [][(op'.name = "remove" /\ DeleteButton(op'.arg[1])) =>
         LET crn == op'.arg[1]
             old == load_companies(file)
             new == load_companies(file')
         IN /\ new = Without(old, crn)
            /\ load_companies(save_companies(delete_company(file', crn))) = new
            /\ (\A i \in 1..Len(old) : old[i].crn # crn) => new = old]_vars

\* the middle one of three stored records has just been removed
C3_Witness ==
    /\ op.name = "remove"
    /\ Len(Stored) = 2
    /\ Stored[1].crn = Crn(1) /\ Stored[2].crn = Crn(3)
    /\ op.arg[1] = Crn(2)

\* C4: refreshAll calls the fetch once per stored record in iteration order; the
\* persisted collection afterwards is the freshly fetched records of the crns whose
\* fetch yielded one, in the original order, the others dropped; the integer
\* returned is the number of records persisted.
C4_RefreshContract ==
    [][(op'.name = "refresh" /\ RefreshButton(op'.arg)) =>
         LET answers == op'.arg
             old == load_companies(file)
             new == load_companies(file')
             got == {i \in 1..Len(old) : answers[i] # << >>}
         IN /\ calls' = [i \in 1..Len(old) |-> old[i].crn]
            /\ Len(new) = Cardinality(got)
            /\ \A i \in got :
                  LET k == Cardinality({j \in got : j <= i})
                  IN new[k] = refresh_company_data(old[i].crn, answers[i], today)[1]
            /\ ret' = Len(new)]_vars

\* of three stored records the second got no answer and was dropped, and the
\* other two came back with the day's date
C4_Witness ==
    /\ op.name = "refresh" /\ Len(op.arg) = 3
    /\ op.arg[1] # << >> /\ op.arg[2] = << >> /\ op.arg[3] # << >>
    /\ ret = 2 /\ Len(Stored) = 2 /\ Len(calls) = 3
    /\ Stored[1].last_updated = strftime(today)

\* ---------------------------------------------------------------- save_companies, step by step
\* open("companies.json", "w") truncates the file; json.dump then writes chunk after
\* chunk; leaving the with block closes it. The process can die, or json.dump raise,
\* between any two of these steps, and the script then runs again from the top.
SaveEnter(data) ==
    /\ save_pc # "writing"
    /\ before' = load_companies(file)
    /\ file' = [exists |-> TRUE, content |-> << >>]
    /\ save_data' = data
    /\ save_pos' = 0
    /\ save_pc' = "writing"
    /\ UNCHANGED <<today, op, ret, calls, view>>

AddSaves(data) ==
    LET r == add_company(file, data) IN r.saved /\ SaveEnter(r.data)

DeleteSaves(delete_crn) == SaveEnter(delete_company(file, delete_crn))

RefreshSaves(answers) == SaveEnter(refresh_all_companies(file, answers, today).data)

SaveWrite ==
    /\ save_pc = "writing"
    /\ save_pos < Len(json_dump(save_data))
    /\ file' = [file EXCEPT !.content = Append(@, json_dump(save_data)[save_pos + 1])]
    /\ save_pos' = save_pos + 1
    /\ UNCHANGED <<today, op, ret, before, calls, save_pc, save_data, view>>

SaveReturn ==
    /\ save_pc = "writing"
    /\ save_pos = Len(json_dump(save_data))
    /\ save_pc' = "idle"
    /\ UNCHANGED <<file, today, op, ret, before, calls, save_data, save_pos, view>>

SaveInterrupt ==
    /\ save_pc = "writing"
    /\ save_pc' = "interrupted"
    /\ UNCHANGED <<file, today, op, ret, before, calls, save_data, save_pos, view>>

NextSave ==
    \/ \E data \in SavedSearches : AddSaves(data)
    \/ \E delete_crn \in CRNs : DeleteSaves(delete_crn)
    \/ \E answers \in [1..Len(load_companies(file)) -> Answers] : RefreshSaves(answers)
    \/ SaveWrite
    \/ SaveReturn
    \/ SaveInterrupt

SpecSave == Init /\ [][NextSave]_vars

\* ---------------------------------------------------------------- the My Companies page
\* SpecView runs the page on every portfolio of up to MaxLen companies, on StartDay
\* and on the MaxDays days after it. DuePairs: (accounts_due, cs_due) as the registry
\* can have supplied them; against StartDay the day offsets are the ones noted
D(y1, y2, y3, y4, m1, m2, d1, d2) == <<y1, y2, y3, y4, "-", m1, m2, "-", d1, d2>>

DuePairs ==
    { <<D("2", "0", "2", "4", "0", "2", "2", "6"), D("2", "0", "2", "4", "0", "3", "1", "2")>>,  \* -5, 10
      <<D("2", "0", "2", "4", "0", "3", "0", "5"), D("2", "0", "2", "4", "0", "3", "0", "5")>>,  \* 3, 3
      <<NA, D("2", "0", "2", "4", "0", "4", "1", "1")>>,                                          \* None, 40
      <<D("2", "0", "2", "4", "0", "1", "0", "1"), D("2", "0", "2", "4", "0", "2", "3", "0")>>,  \* -61, no Feb 30
      <<D("2", "0", "2", "4", "0", "4", "0", "2"), D("2", "0", "2", "4", "0", "3", "1", "0")>>,  \* 31, 8
      <<D("2", "0", "2", "4", "0", "3", "0", "2"), NA>>,                                          \* 0, None
      <<PyNone, << >> >> }                                                                        \* None, None

Portfolios ==
    UNION { { [i \in 1..n |->
                 [crn |-> Crn(i), name |-> "COMPANY " \o ToString(i), status |-> "active",
                  accounts_due |-> dues[i][1], cs_due |-> dues[i][2],
                  last_updated |-> strftime(StartDay)]] :
              dues \in [1..n -> DuePairs] } : n \in 0..MaxLen }

\* one run of the script with the menu on "My Companies" and the filter radio on
\* filter_choice
MyCompaniesPage(filter_choice) ==
    /\ \E companies \in {load_companies(file)} :
         IF companies = << >>
         THEN view' = [NoView EXCEPT !.rendered = TRUE, !.today = today]
         ELSE \E s \in {summary(companies, today)},
                 rows \in {table_rows(filtered(companies, filter_choice, today), today)} :
                \E keys \in {[i \in 1..Len(rows) |-> cs_days(rows[i].cs01_due_date, today)]} :
                   \E order \in {sort_values(keys)} :
                      view' = [rendered |-> TRUE, empty |-> FALSE, today |-> today,
                               filter_choice |-> filter_choice,
                               total |-> s.total, due_30 |-> s.due_30, due_7 |-> s.due_7,
                               overdue |-> s.overdue,
                               rows |-> rows,
                               table |-> [i \in 1..Len(rows) |-> rows[order[i]]]]
    /\ UNCHANGED <<file, today, op, ret, before, calls, save_pc, save_data, save_pos>>

InitView ==
    /\ \E p \in Portfolios : file = save_companies(p)
    /\ today \in DaysFrom(StartDay, MaxDays)
    /\ op = NoOp
    /\ ret = PyNone
    /\ before = << >>
    /\ calls = << >>
    /\ save_pc = "idle"
    /\ save_data = << >>
    /\ save_pos = 0
    /\ view = NoView

NextView == \E filter_choice \in FilterChoices : MyCompaniesPage(filter_choice)

SpecView == InitView /\ [][NextView]_vars

\* ---------------------------------------------------------------- save_companies is not atomic
\* C5: saveAll replaces the persisted collection atomically: whenever the persisted
\* state can be observed, also after saveAll was interrupted part-way, loadAll gives
\* the complete previous collection or the complete given one, never an empty or a
\* partial one.
C5_SaveIsAtomic ==
    save_pc # "writing" => load_companies(file) \in {before, save_data}

\* ---------------------------------------------------------------- classification and the page
Rank(label) ==
    CASE label = "N/A" -> 0
      [] label = "OK" -> 1
      [] label = "Due in 30 days" -> 2
      [] label = "Due in 7 days" -> 3
      [] label = "Overdue" -> 4

\* the class of a day offset, << >> for no offset
ClassOf(offset) ==
    IF offset = << >> THEN "N/A"
    ELSE IF offset[1] < 0 THEN "Overdue"
    ELSE IF offset[1] \in 0..7 THEN "Due in 7 days"
    ELSE IF offset[1] \in 8..30 THEN "Due in 30 days"
    ELSE "OK"

MoreUrgent(a, b) == IF Rank(a) >= Rank(b) THEN a ELSE b

\* C6: overallUrgency(record) is the more urgent of urgencyOf(accountsDue) and
\* urgencyOf(csDue) under Unknown < OK < DueIn30Days < DueIn7Days < Overdue, with
\* urgencyOf: no offset -> Unknown, < 0 -> Overdue, 0..7 -> DueIn7Days, 8..30 ->
\* DueIn30Days, > 30 -> OK; it is Unknown exactly when neither deadline has an
\* offset, and otherwise the class of the least offset there is.
C6_OverallUrgency ==
    \A i \in 1..Len(Stored) :
        \E c \in {Stored[i]} :
        \E a \in {days_until(c.accounts_due, today)}, b \in {days_until(c.cs_due, today)} :
        \E overall \in {company_overall_status(c, today)} :
            /\ status_label(c.accounts_due, today) = ClassOf(a)
            /\ status_label(c.cs_due, today) = ClassOf(b)
            /\ overall = MoreUrgent(ClassOf(a), ClassOf(b))
            /\ (overall = "N/A") <=> (a = << >> /\ b = << >>)
            /\ \A least \in {d \in {a, b} : d # << >> /\ \A e \in {a, b} : e = << >> \/ d[1] <= e[1]} :
                  overall = ClassOf(least)

\* the page filtered on "Due in 7 days" shows a company whose accounts are due in
\* 30 days and whose confirmation statement is due in 7
C6_Witness ==
    /\ view.rendered /\ view.filter_choice = "Due in 7 days"
    /\ \E i \in 1..Len(view.rows) :
          /\ view.rows[i].accounts_status = "Due in 30 days"
          /\ view.rows[i].cs01_status = "Due in 7 days"

\* the defined day offsets of the portfolio, one per company and deadline field
Offsets(companies, now) ==
    { x \in { <<i, f, days_until(companies[i][f], now)>> :
                i \in 1..Len(companies), f \in {"accounts_due", "cs_due"} } : x[3] # << >> }

\* C7: summarize gives total = the number of records, and overdue, dueIn7, dueIn30 =
\* the number of defined day offsets, over both deadline fields of every record,
\* that are < 0, in 0..7 and in 8..30; offsets > 30 and Unknown ones count nowhere,
\* so overdue + dueIn7 + dueIn30 <= 2 * total.
C7_SummaryCounts ==
    (view.rendered /\ ~view.empty) =>
        \E offs \in {Offsets(Stored, view.today)} :
            /\ view.total = Len(Stored)
            /\ view.overdue = Cardinality({x \in offs : x[3][1] < 0})
            /\ view.due_7 = Cardinality({x \in offs : x[3][1] \in 0..7})
            /\ view.due_30 = Cardinality({x \in offs : x[3][1] \in 8..30})
            /\ view.overdue + view.due_7 + view.due_30 <= 2 * view.total

\* a summary in which one company counts twice, offsets of 7 and of 30 are counted
\* and an offset above 30 and an unknown one are not
C7_Witness ==
    /\ view.rendered /\ ~view.empty
    /\ \E offs \in {Offsets(Stored, view.today)} :
          /\ \E x, y \in offs : x[1] = y[1] /\ x[2] # y[2] /\ x[3][1] = 7 /\ y[3][1] = 30
          /\ \E x \in offs : x[3][1] > 30
          /\ Cardinality(offs) < 2 * Len(Stored)
    /\ view.due_7 >= 1 /\ view.due_30 >= 1

\* the portfolio of the example: three companies with (accountsDue, csDue) offsets
\* (-5, 10), (3, 3) and (None, 40)
ExamplePortfolio ==
    /\ Len(Stored) = 3
    /\ { <<days_until(Stored[i].accounts_due, view.today),
           days_until(Stored[i].cs_due, view.today)>> : i \in 1..3 }
         = { << <<-5>>, <<10>> >>, << <<3>>, <<3>> >>, << << >>, <<40>> >> }

\* C8 as stated: for that portfolio summarize yields overdue = 1, dueIn7 = 3 and
\* dueIn30 = 1.
C8_Original ==
    (view.rendered /\ ExamplePortfolio) =>
        (view.overdue = 1 /\ view.due_7 = 3 /\ view.due_30 = 1)

\* C8 amended: for that portfolio summarize yields overdue = 1, dueIn7 = 2 (the two
\* offsets of 3) and dueIn30 = 1.
C8_ExampleCounts ==
    (view.rendered /\ ExamplePortfolio) =>
        (view.total = 3 /\ view.overdue = 1 /\ view.due_7 = 2 /\ view.due_30 = 1)

C8_Witness == view.rendered /\ ExamplePortfolio /\ view.due_7 = 2

Jan1 == <<"2", "0", "2", "4", "-", "0", "1", "-", "0", "1">>
Mar2 == [y |-> 2024, m |-> 3, d |-> 2]

\* the label of a day offset: whole 30-day months once the magnitude reaches 30,
\* "... ago" for the past and "in ..." otherwise
Magnitude(n) ==
    IF n < 30 THEN ToString(n) \o " days"
    ELSE ToString(n \div 30) \o (IF n \div 30 = 1 THEN " month" ELSE " months")

LabelOf(offset) ==
    IF offset = << >> THEN "N/A"
    ELSE IF offset[1] < 0 THEN Magnitude(-offset[1]) \o " ago"
    ELSE "in " \o Magnitude(offset[1])

\* C9 as stated: relativeLabel("2024-01-01") evaluated when today is 2024-03-02
\* returns "in 2 months".
C9_Original ==
    (view.rendered /\ view.today = Mar2) =>
        \A i \in 1..Len(view.rows) :
            view.rows[i].accounts_due_date = Jan1 =>
                view.rows[i].accounts_deadline = "in 2 months"

\* C9 amended: relativeLabel("2024-01-01") evaluated when today is 2024-03-02, 61
\* days after it, returns "2 months ago"; every label follows the rule that a
\* defined offset is labelled in whole 30-day months (magnitude // 30) once its
\* magnitude is at least 30, past dates "... ago" and the others "in ...".
C9_RelativeLabel ==
    view.rendered =>
        \A i \in 1..Len(view.rows) :
            \E r \in {view.rows[i]} :
                /\ (view.today = Mar2 /\ r.accounts_due_date = Jan1) =>
                      r.accounts_deadline = "2 months ago"
                /\ r.accounts_deadline = LabelOf(days_until(r.accounts_due_date, view.today))
                /\ r.cs01_deadline = LabelOf(days_until(r.cs01_due_date, view.today))

C9_Witness ==
    /\ view.rendered /\ view.today = Mar2
    /\ \E i \in 1..Len(view.rows) :
          /\ view.rows[i].accounts_due_date = Jan1
          /\ view.rows[i].accounts_deadline = "2 months ago"

\* where row i of the sorted table stood before the sort
Origin(i) == CHOOSE k \in 1..Len(view.rows) : view.rows[k] = view.table[i]

\* C10: sortByNearestCS returns a permutation of its rows, ascending by CS-deadline
\* day offset, every row whose CS deadline is Unknown (sentinel, empty or malformed)
\* after all rows with an offset, and stable: two rows with equal sort key, two
\* Unknown rows among them, keep their original relative order.
C10_SortByNearestCS ==
    (view.rendered /\ ~view.empty) =>
        \E key \in {[i \in 1..Len(view.table) |->
                       days_until(view.table[i].cs01_due_date, view.today)]} :
            /\ Len(view.table) = Len(view.rows)
            /\ \A k \in 1..Len(view.rows) :
                  Cardinality({i \in 1..Len(view.table) : view.table[i] = view.rows[k]}) = 1
            /\ \A i, j \in 1..Len(view.table) :
                  i < j =>
                     /\ key[i] = << >> => key[j] = << >>
                     /\ (key[i] # << >> /\ key[j] # << >>) => key[i][1] <= key[j][1]
                     /\ key[i] = key[j] => Origin(i) < Origin(j)

====
